---- MODULE Spec2Model ----
(***************************************************************************)
(* osgEarthUtil/ElevationMorph.cpp: the ElevationMorph terrain effect.     *)
(*                                                                         *)
(* The effect owns two float fields and two uniform objects, installs      *)
(* them with the vertex function oe_morph_vertex into the state set of a   *)
(* terrain engine, and removes them again.  The vertex function itself is  *)
(* modelled over exact rationals extended with the IEEE specials, so that  *)
(* a division by zero is visible as an undefined result.                   *)
(***************************************************************************)
EXTENDS Integers, FiniteSets, TLC

(***************************************************************************)
(* Bounds of the model.  Times are multiples of a quarter second, so that  *)
(* the constructor's 0.25f is one step.                                    *)
(***************************************************************************)
\* setter arguments range over -1/4 .. MaxArg/4 seconds
MaxArg == 2
\* osg_FrameTime ranges over 0 .. MaxTime/4 seconds
MaxTime == 3
\* oe_min_tile_range_factor ranges over MinFar .. MaxFar
MinFar == 6
MaxFar == 7
\* tile radius (oe_tile_key.w) ranges over 1 .. MaxRadius
MaxRadius == 2
\* the camera-to-vertex distance ranges over MinLength .. MaxLength, the
\* distances around the morph band of a tile of radius 1
MinLength == 6
MaxLength == 8

(***************************************************************************)
(* Floats: [k, n, d] with k = "num" for the rational n/d (d > 0, lowest    *)
(* terms), and k in {"nan", "inf", "ninf"} for the specials.               *)
(***************************************************************************)
RECURSIVE GCD(_, _)
GCD(a, b) == IF b = 0 THEN a ELSE GCD(b, a % b)

Abs(i) == IF i < 0 THEN -i ELSE i

F(n, d) ==
    LET s == IF d < 0 THEN -1 ELSE 1
        g == GCD(Abs(n), Abs(d))
    IN  [k |-> "num", n |-> (s * n) \div g, d |-> (s * d) \div g]

FI(i) == F(i, 1)

NaN == [k |-> "nan", n |-> 0, d |-> 1]
PosInf == [k |-> "inf", n |-> 1, d |-> 1]
NegInf == [k |-> "ninf", n |-> -1, d |-> 1]

IsNum(x) == x.k = "num"

\* x < y; false whenever an operand is NaN, as in IEEE
FLt(x, y) ==
    CASE x.k = "nan" \/ y.k = "nan" -> FALSE
      [] x.k = "inf" -> FALSE
      [] y.k = "ninf" -> FALSE
      [] x.k = "ninf" -> TRUE
      [] y.k = "inf" -> TRUE
      [] OTHER -> x.n * y.d < y.n * x.d

FLe(x, y) == x.k # "nan" /\ y.k # "nan" /\ ~FLt(y, x)

FNeg(x) ==
    CASE x.k = "num" -> F(-x.n, x.d)
      [] x.k = "inf" -> NegInf
      [] x.k = "ninf" -> PosInf
      [] OTHER -> NaN

FAdd(x, y) ==
    CASE x.k = "nan" \/ y.k = "nan" -> NaN
      [] x.k = "num" /\ y.k = "num" -> F(x.n * y.d + y.n * x.d, x.d * y.d)
      [] x.k = "num" -> y
      [] y.k = "num" -> x
      [] x.k = y.k -> x
      [] OTHER -> NaN

FSub(x, y) == FAdd(x, FNeg(y))

FSign(x) == IF x.n < 0 THEN -1 ELSE IF x.n > 0 THEN 1 ELSE 0

FMul(x, y) ==
    CASE x.k = "nan" \/ y.k = "nan" -> NaN
      [] x.k = "num" /\ y.k = "num" -> F(x.n * y.n, x.d * y.d)
      [] FSign(x) * FSign(y) > 0 -> PosInf
      [] FSign(x) * FSign(y) < 0 -> NegInf
      [] OTHER -> NaN

\* The results an implementation may give for a division by zero: GLSL
\* leaves it undefined, IEEE hardware gives NaN for 0/0 and an infinity
\* otherwise, other hardware a finite number.
DivByZero == {NaN, PosInf, NegInf, FI(0)}

\* x / y: the set of possible results
FDiv(x, y) ==
    IF IsNum(x) /\ IsNum(y) /\ y.n # 0
    THEN {F(x.n * y.d, x.d * y.n)}
    ELSE IF IsNum(y) /\ y.n = 0 THEN DivByZero ELSE {NaN}

\* GLSL min, max and clamp; with a NaN operand either operand may result
FMax(x, y) == IF x.k = "nan" \/ y.k = "nan" THEN {x, y}
              ELSE IF FLt(x, y) THEN {y} ELSE {x}

FMin(x, y) == IF x.k = "nan" \/ y.k = "nan" THEN {x, y}
              ELSE IF FLt(y, x) THEN {y} ELSE {x}

FClamp(x, minVal, maxVal) ==
    UNION {FMin(m, maxVal) : m \in FMax(x, minVal)}


(***************************************************************************)
(* State.                                                                  *)
(***************************************************************************)
VARIABLES
    _delay,                    \* ElevationMorph::_delay
    _duration,                 \* ElevationMorph::_duration
    _delayUniform,             \* the osg::Uniform object "oe_morph_delay"
    _durationUniform,          \* the osg::Uniform object "oe_morph_duration"
    stateSet,                  \* the engine's state set, or NULL
    lastCall,                  \* the most recent onInstall/onUninstall on the engine
    oe_min_tile_range_factor,  \* host uniform, fixed for the engine
    osg_FrameTime,             \* host uniform, in quarter seconds
    oe_tile_birthtime,         \* host uniform of the tile, in quarter seconds
    oe_tile_key_w,             \* host uniform of the tile: its radius
    vertexLength,              \* length(VertexVIEW.xyz / VertexVIEW.w)
    frame                      \* what oe_morph_vertex computed for the vertex

effect == <<_delay, _duration, _delayUniform, _durationUniform>>
engine == <<stateSet, lastCall>>
host == <<oe_min_tile_range_factor, osg_FrameTime, oe_tile_birthtime,
          oe_tile_key_w, vertexLength>>
vars == <<effect, engine, host, frame>>

NULL == [k |-> "null"]
LOCATION_VERTEX_MODEL == "LOCATION_VERTEX_MODEL"
UniformNames == {"oe_morph_delay", "oe_morph_duration"}
NoUniform == "none"

(***************************************************************************)
(* The host's scene graph: osg::Uniform, osg::StateSet and                 *)
(* osgEarth::VirtualProgram, as far as the effect uses them.               *)
(***************************************************************************)
\* new osg::Uniform(FLOAT, name) followed by set(value)
Uniform(name, value) == [name |-> name, value |-> value]

\* osg::Uniform::set
UniformSet(u, value) == [u EXCEPT !.value = value]

\* a new, empty osg::StateSet
NewStateSet ==
    [k |-> "stateset", uniformList |-> [nm \in UniformNames |-> NoUniform], vp |-> NULL]

\* osg::Node::getOrCreateStateSet
getOrCreateStateSet(ss) == IF ss = NULL THEN NewStateSet ELSE ss

\* osg::StateSet::addUniform: the list is keyed by the uniform's name and
\* holds a reference to the object
addUniform(ss, id, u) == [ss EXCEPT !.uniformList[u.name] = id]

\* osg::StateSet::removeUniform(Uniform*): removes the entry of that name
\* only if it is this object
removeUniform(ss, id, u) ==
    IF ss.uniformList[u.name] = id
    THEN [ss EXCEPT !.uniformList[u.name] = NoUniform]
    ELSE ss

\* a new VirtualProgram: no functions, no shaders
NewVirtualProgram == [k |-> "vp", functions |-> {}, shaderMap |-> {}]

\* VirtualProgram::getOrCreate(stateset)
VPgetOrCreate(ss) == IF ss.vp = NULL THEN [ss EXCEPT !.vp = NewVirtualProgram] ELSE ss

\* VirtualProgram::setFunction(name, source, location): one entry per name
\* at the location, and the shader registered under the name
setFunction(vp, name, location) ==
    [vp EXCEPT
        !.functions = {f \in @ : ~(f.name = name /\ f.location = location)}
                        \cup {[name |-> name, location |-> location]},
        !.shaderMap = @ \cup {name}]

\* VirtualProgram::removeShader(name): the shader and its function entries
removeShader(vp, name) ==
    [vp EXCEPT
        !.functions = {f \in @ : f.name # name},
        !.shaderMap = @ \ {name}]

(***************************************************************************)
(* ElevationMorph                                                          *)
(***************************************************************************)
\* osg::clampAbove(v, minimum)
clampAbove(v, minimum) == IF FLt(v, minimum) THEN minimum ELSE v

\* the setters' float arguments
Args == {F(a, 4) : a \in -1 .. MaxArg}

setDelay_UniformNotSet(delay) ==
    /\ _delay' = clampAbove(delay, FI(0))
    /\ UNCHANGED <<_delayUniform, _duration, _durationUniform, engine, host, frame>>

setDelay(delay) ==
    /\ _delay' = clampAbove(delay, FI(0))
    /\ _delayUniform' = UniformSet(_delayUniform, _delay')
    /\ UNCHANGED <<_duration, _durationUniform, engine, host, frame>>

setDuration_NoClamp(duration) ==
    /\ _duration' = duration
    /\ _durationUniform' = UniformSet(_durationUniform, _duration')
    /\ UNCHANGED <<_delay, _delayUniform, engine, host, frame>>

setDuration(duration) ==
    /\ _duration' = clampAbove(duration, FI(0))
    /\ _durationUniform' = UniformSet(_durationUniform, _duration')
    /\ UNCHANGED <<_delay, _delayUniform, engine, host, frame>>

\* the engine pointer handed to onInstall and onUninstall
Engines == {"null", "engine"}

onInstall_NoDurationUniform(eng) ==
    IF eng # "null"
    THEN LET s0 == getOrCreateStateSet(stateSet)
             s1 == addUniform(s0, "_delayUniform", _delayUniform)
             s3 == VPgetOrCreate(s1)
         IN  /\ stateSet' = [s3 EXCEPT !.vp =
                                setFunction(@, "oe_morph_vertex", LOCATION_VERTEX_MODEL)]
             /\ lastCall' = "onInstall"
             /\ UNCHANGED <<effect, host, frame>>
    ELSE UNCHANGED vars

onInstall(eng) ==
    IF eng # "null"
    THEN LET s0 == getOrCreateStateSet(stateSet)
             s1 == addUniform(s0, "_delayUniform", _delayUniform)
             s2 == addUniform(s1, "_durationUniform", _durationUniform)
             s3 == VPgetOrCreate(s2)
         IN  /\ stateSet' = [s3 EXCEPT !.vp =
                                setFunction(@, "oe_morph_vertex", LOCATION_VERTEX_MODEL)]
             /\ lastCall' = "onInstall"
             /\ UNCHANGED <<effect, host, frame>>
    ELSE UNCHANGED vars

onUninstall_KeepsFunction(eng) ==
    IF eng # "null"
    THEN /\ lastCall' = "onUninstall"
         /\ IF stateSet # NULL
            THEN LET s1 == removeUniform(stateSet, "_delayUniform", _delayUniform)
                     s2 == removeUniform(s1, "_durationUniform", _durationUniform)
                 IN  stateSet' = s2
            ELSE UNCHANGED stateSet
         /\ UNCHANGED <<effect, host, frame>>
    ELSE UNCHANGED vars

onUninstall(eng) ==
    IF eng # "null"
    THEN /\ lastCall' = "onUninstall"
         /\ IF stateSet # NULL
            THEN LET s1 == removeUniform(stateSet, "_delayUniform", _delayUniform)
                     s2 == removeUniform(s1, "_durationUniform", _durationUniform)
                 IN  stateSet' = IF s2.vp # NULL
                                 THEN [s2 EXCEPT !.vp = removeShader(@, "oe_morph_vertex")]
                                 ELSE s2
            ELSE UNCHANGED stateSet
         /\ UNCHANGED <<effect, host, frame>>
    ELSE UNCHANGED vars

(***************************************************************************)
(* The vertex function oe_morph_vertex.  Each operator gives the set of    *)
(* results the GLSL implementation may produce.                            *)
(***************************************************************************)
\* as MorphRDist, the radius not subtracted from the distance
MorphRDist_RadiusNotSubtracted(far, radius, len) ==
    LET near == FMul(far, F(85, 100))
        d == len
    IN  UNION {UNION {FDiv(FSub(a, near), FSub(far, near)) : a \in FClamp(q, near, far)}
               : q \in FDiv(d, radius)}

\* float r_dist: lines 57 to 63
MorphRDist(far, radius, len) ==
    LET near == FMul(far, F(85, 100))
        d == FSub(len, radius)
    IN  UNION {UNION {FDiv(FSub(a, near), FSub(far, near)) : a \in FClamp(q, near, far)}
               : q \in FDiv(d, radius)}

\* float r_time: line 64
MorphRTime(frameTime, birthtime, delay, duration) ==
    LET x == FSub(frameTime, FAdd(birthtime, delay))
    IN  UNION {{FSub(FI(1), q) : q \in FDiv(c, duration)}
               : c \in FClamp(x, FI(0), duration)}

\* float r: line 65
oe_morph_vertex(far, radius, len, frameTime, birthtime, delay, duration) ==
    UNION {UNION {{[k |-> "drawn", r_dist |-> rd, r_time |-> rt, r |-> r,
                    oe_morph_delay |-> delay, oe_morph_duration |-> duration]
                   : r \in FMax(rd, rt)}
                  : rt \in MorphRTime(frameTime, birthtime, delay, duration)}
           : rd \in MorphRDist(far, radius, len)}

\* lines 66 to 70, along the up vector of a vertex with w = 1: the
\* elevation the vertex is displaced to
MorphedElevation(r, elev, elevOld) == FAdd(elev, FMul(r, FSub(elevOld, elev)))

(***************************************************************************)
(* The host: frame clock, tiles, camera, and the draw of a vertex.         *)
(***************************************************************************)
NoFrame == [k |-> "none"]

\* the value the shader reads for a uniform: that of the object the state
\* set holds under the name; GLSL initialises an unset uniform to 0
UniformValue(name) ==
    LET id == stateSet.uniformList[name]
    IN  IF id = "_delayUniform" THEN _delayUniform.value
        ELSE IF id = "_durationUniform" THEN _durationUniform.value
        ELSE FI(0)

FunctionInstalled ==
    /\ stateSet # NULL
    /\ stateSet.vp # NULL
    /\ [name |-> "oe_morph_vertex", location |-> LOCATION_VERTEX_MODEL]
           \in stateSet.vp.functions

Tick ==
    /\ osg_FrameTime < MaxTime
    /\ osg_FrameTime' = osg_FrameTime + 1
    /\ frame' = NoFrame
    /\ UNCHANGED <<effect, engine, oe_min_tile_range_factor, oe_tile_birthtime,
                   oe_tile_key_w, vertexLength>>

LoadTile ==
    /\ oe_tile_birthtime' = osg_FrameTime
    /\ oe_tile_key_w' \in 1 .. MaxRadius
    /\ frame' = NoFrame
    /\ UNCHANGED <<effect, engine, oe_min_tile_range_factor, osg_FrameTime, vertexLength>>

MoveCamera ==
    /\ vertexLength' \in MinLength .. MaxLength
    /\ frame' = NoFrame
    /\ UNCHANGED <<effect, engine, oe_min_tile_range_factor, osg_FrameTime,
                   oe_tile_birthtime, oe_tile_key_w>>

Draw ==
    /\ FunctionInstalled
    /\ frame' \in oe_morph_vertex(FI(oe_min_tile_range_factor), FI(oe_tile_key_w),
                                  FI(vertexLength), F(osg_FrameTime, 4),
                                  F(oe_tile_birthtime, 4),
                                  UniformValue("oe_morph_delay"),
                                  UniformValue("oe_morph_duration"))
    /\ UNCHANGED <<effect, engine, host>>

(***************************************************************************)
(* The specification.                                                      *)
(***************************************************************************)
\* the state sets an engine may have before the effect is installed
HostStateSets ==
    {NULL, NewStateSet,
     [NewStateSet EXCEPT !.vp =
         setFunction(NewVirtualProgram, "oe_host_vertex", LOCATION_VERTEX_MODEL)]}

Init ==
    /\ _delay = FI(0)
    /\ _duration = F(1, 4)
    /\ _delayUniform = Uniform("oe_morph_delay", _delay)
    /\ _durationUniform = Uniform("oe_morph_duration", _duration)
    /\ stateSet \in HostStateSets
    /\ lastCall = "none"
    /\ oe_min_tile_range_factor \in MinFar .. MaxFar
    /\ osg_FrameTime = 0
    /\ oe_tile_birthtime = 0
    /\ oe_tile_key_w = 1
    /\ vertexLength = MinLength
    /\ frame = NoFrame

\* the effect's life on an engine, drawn with the scene at rest
Next ==
    \/ \E delay \in Args : setDelay(delay)
    \/ \E duration \in Args : setDuration(duration)
    \/ \E eng \in Engines : onInstall(eng)
    \/ \E eng \in Engines : onUninstall(eng)
    \/ Draw

Spec == Init /\ [][Next]_vars

\* the effect installed on an engine that had no state set, drawn while
\* the clock runs, tiles load and the camera moves
InitShader == Init /\ stateSet = NULL

NextShader ==
    \/ \E delay \in Args : setDelay(delay)
    \/ \E duration \in Args : setDuration(duration)
    \/ \E eng \in Engines : onInstall(eng)
    \/ Tick
    \/ LoadTile
    \/ MoveCamera
    \/ Draw

SpecShader == InitShader /\ [][NextShader]_vars

(***************************************************************************)
(* What the engine's state set holds.                                      *)
(***************************************************************************)
HoldsDelayUniform ==
    stateSet # NULL /\ stateSet.uniformList["oe_morph_delay"] = "_delayUniform"

HoldsDurationUniform ==
    stateSet # NULL /\ stateSet.uniformList["oe_morph_duration"] = "_durationUniform"

\* some entry of the state set goes by the name of one of the effect's three
HoldsAnyOfTheThree ==
    /\ stateSet # NULL
    /\ \/ \E nm \in UniformNames : stateSet.uniformList[nm] # NoUniform
       \/ /\ stateSet.vp # NULL
          /\ \/ "oe_morph_vertex" \in stateSet.vp.shaderMap
             \/ \E f \in stateSet.vp.functions : f.name = "oe_morph_vertex"

\* C1: once onInstall has returned for a non-null engine, the engine has a
\* state set, and it holds the effect's delay uniform, its duration uniform
\* and the function oe_morph_vertex at the vertex-model location, whatever
\* state set the engine had before.
C1_InstallAddsAllThree ==
    lastCall = "onInstall" =>
        /\ stateSet # NULL
        /\ HoldsDelayUniform
        /\ HoldsDurationUniform
        /\ FunctionInstalled
        /\ "oe_morph_vertex" \in stateSet.vp.shaderMap

\* installed into a state set that already had a virtual program of the host
C1_Witness ==
    /\ lastCall = "onInstall"
    /\ HoldsDurationUniform
    /\ \E f \in stateSet.vp.functions : f.name = "oe_host_vertex"

\* C2: over any sequence of onInstall and onUninstall calls on the engine,
\* the state set holds the two uniforms and the function exactly when the
\* most recent of these calls was onInstall; after onUninstall (and before
\* any call) it holds none of the three.
C2_HeldIffLastCallInstall ==
    /\ lastCall = "onInstall" =>
           HoldsDelayUniform /\ HoldsDurationUniform /\ FunctionInstalled
    /\ lastCall # "onInstall" => ~HoldsAnyOfTheThree

\* uninstalled after an install that created the virtual program
C2_Witness ==
    /\ lastCall = "onUninstall"
    /\ stateSet # NULL
    /\ stateSet.vp = NewVirtualProgram

(***************************************************************************)
(* The fields and their uniforms.                                          *)
(***************************************************************************)
\* what a setter is to store for an argument: 0 for a negative one, the
\* argument itself otherwise
Stored(arg) == IF arg.n < 0 THEN FI(0) ELSE arg

EngineView ==
    IF stateSet = NULL THEN NULL
    ELSE [nm \in UniformNames |->
            IF stateSet.uniformList[nm] = NoUniform THEN NaN ELSE UniformValue(nm)]

\* C7: while the effect is installed, the delay and duration seen through
\* the engine's state set are the effect's current ones, so a setter called
\* after onInstall takes effect at once; after onUninstall a setter changes
\* nothing of the engine's state set.
C7_EngineSeesCurrentValues ==
    /\ [](lastCall = "onInstall" =>
             /\ HoldsDelayUniform /\ HoldsDurationUniform
             /\ EngineView["oe_morph_delay"] = _delay
             /\ EngineView["oe_morph_duration"] = _duration)
    /\ [][\A arg \in Args :
            /\ (lastCall = "onInstall" /\ setDelay(arg)) =>
                   EngineView'["oe_morph_delay"] = Stored(arg)
            /\ (lastCall = "onInstall" /\ setDuration(arg)) =>
                   EngineView'["oe_morph_duration"] = Stored(arg)
            /\ (lastCall = "onUninstall" /\ (setDelay(arg) \/ setDuration(arg))) =>
                   stateSet' = stateSet /\ EngineView' = EngineView]_vars

\* installed, and both values changed by the setters since construction
C7_Witness ==
    /\ lastCall = "onInstall"
    /\ _delay = F(1, 4) /\ EngineView["oe_morph_delay"] = F(1, 4)
    /\ _duration = F(1, 2) /\ EngineView["oe_morph_duration"] = F(1, 2)

(***************************************************************************)
(* The morph ratio of a drawn vertex.  Tick, LoadTile and MoveCamera       *)
(* discard the frame, so a drawn frame was computed from the host's        *)
(* current values and from the uniform values it records.                  *)
(***************************************************************************)
Drawn == frame.k = "drawn"

FrameT == F(osg_FrameTime, 4)
\* birth time + delay, and birth time + delay + duration, of the drawn frame
MorphStart == FAdd(F(oe_tile_birthtime, 4), frame.oe_morph_delay)
MorphEnd == FAdd(MorphStart, frame.oe_morph_duration)

Elevations == -1 .. 1

Between(v, a, b) ==
    \/ FLe(a, v) /\ FLe(v, b)
    \/ FLe(b, v) /\ FLe(v, a)

\* C3: for every delay and duration the effect can hold and every frame
\* time, birth time and camera distance, the morph ratio r is a number in
\* [0,1], and the vertex is displaced to an elevation between the new one
\* (at r = 0) and the old one (at r = 1).
C3_RatioWellDefinedInUnitInterval ==
    Drawn =>
        /\ IsNum(frame.r)
        /\ FLe(FI(0), frame.r) /\ FLe(frame.r, FI(1))
        /\ \A elev, elevOld \in Elevations :
              LET e == MorphedElevation(frame.r, FI(elev), FI(elevOld))
              IN  /\ Between(e, FI(elev), FI(elevOld))
                  /\ frame.r = FI(0) => e = FI(elev)
                  /\ frame.r = FI(1) => e = FI(elevOld)

\* the same, for the frames drawn with a duration above 0
C3_HoldsForPositiveDuration ==
    (Drawn /\ FLt(FI(0), frame.oe_morph_duration)) => C3_RatioWellDefinedInUnitInterval

\* C4: r >= r_time, where r_time is 1 while frame time <= birth + delay, 0
\* once frame time >= birth + delay + duration, and never increases as the
\* frame time advances; so r = 0 only once birth + delay + duration has
\* passed.
C4_TimerBoundsRatioFromBelow ==
    Drawn =>
        /\ FLe(frame.r_time, frame.r)
        /\ FLe(FrameT, MorphStart) => frame.r_time = FI(1)
        /\ FLe(MorphEnd, FrameT) => frame.r_time = FI(0)
        /\ \A later \in osg_FrameTime .. MaxTime + 1 :
              \A rt \in MorphRTime(F(later, 4), F(oe_tile_birthtime, 4),
                                   frame.oe_morph_delay, frame.oe_morph_duration) :
                  FLe(rt, frame.r_time)
        /\ frame.r = FI(0) => FLe(MorphEnd, FrameT)

\* the same, for the frames drawn with a duration above 0
C4_HoldsForPositiveDuration ==
    (Drawn /\ FLt(FI(0), frame.oe_morph_duration)) => C4_TimerBoundsRatioFromBelow

\* 100 * radius * ((distance - radius) / radius - near), an integer
AboveNear ==
    100 * (vertexLength - oe_tile_key_w) - 85 * oe_min_tile_range_factor * oe_tile_key_w

\* C5: with far = oe_min_tile_range_factor > 0 and near = 0.85 * far, r_dist
\* is 0 when (distance - radius) / radius <= near, 1 when it is >= far, and
\* (x - near) / (far - near) in between, and it never decreases as the
\* distance grows.
C5_DistanceRatio ==
    Drawn =>
        /\ IsNum(frame.r_dist)
        /\ AboveNear <= 0 => frame.r_dist = FI(0)
        /\ vertexLength - oe_tile_key_w >= oe_min_tile_range_factor * oe_tile_key_w
               => frame.r_dist = FI(1)
        /\ (/\ AboveNear > 0
            /\ vertexLength - oe_tile_key_w < oe_min_tile_range_factor * oe_tile_key_w)
               => /\ frame.r_dist.n * (15 * oe_min_tile_range_factor * oe_tile_key_w)
                        = frame.r_dist.d * AboveNear
                  /\ FLt(FI(0), frame.r_dist) /\ FLt(frame.r_dist, FI(1))
        /\ \A farther \in vertexLength .. MaxLength + 1 :
              \A rd \in MorphRDist(FI(oe_min_tile_range_factor), FI(oe_tile_key_w),
                                   FI(farther)) :
                  FLe(frame.r_dist, rd)

\* a vertex drawn inside the morph band
C5_Witness ==
    /\ Drawn
    /\ FLt(FI(0), frame.r_dist) /\ FLt(frame.r_dist, FI(1))

====
